---- MODULE Spec2Model ----
(***************************************************************************)
(* Monte Carlo cascading-failure engine of fragility.py.                   *)
(*                                                                         *)
(* Numbers.  Edge weights and stress multipliers are counted in quarters   *)
(* (4 = 1.0), propagation probabilities and random draws in sixteenths     *)
(* (16 = 1.0), so that weight * multiplier is exact.  The fields of a      *)
(* fragility record are the rounded decimals scaled to integers:           *)
(* raw_fragility and std in 1/10^4, normalized_fragility in 1/10^6.        *)
(*                                                                         *)
(* Randomness.  random.Random(config.RANDOM_SEED) yields one fixed         *)
(* sequence of draws; which one is unknown to the model, so `stream` is    *)
(* any periodic sequence over DrawVals and an rng object is its position   *)
(* in that sequence (the number of draws taken from it so far).            *)
(***************************************************************************)
EXTENDS Integers, Sequences, FiniteSets, TLC

\* ------------------------------------------------------------------ bounds
MaxSamples == 2      \* largest n_cascades / sample size a caller passes
StreamLen == 3       \* period of the draw stream

\* float("nan"): a value that is no number; every operation on floats below
\* treats it apart
NaN == 999999999

\* draws of rng.random(), in sixteenths: 0.0, 0.5, 0.9375
DrawVals == {0, 8, 15}
\* stress multipliers a direct caller of simulate_cascade passes, in quarters,
\* and nan
MultVals == {0 - 4, 0, 4, 6, NaN}
Scenarios == {"low", "medium", "high"}
NSamples == (0 - 1) .. MaxSamples
\* a node identifier that is in no graph of the model
Absent == "Z"
None == "None"

ProbOne == 4 * 4

\* the exceptions the code and its libraries raise
NodeNotFound == "ValueError: Node not found in graph."
NegativeDimensions == "ValueError: negative dimensions are not allowed"
ZeroSizeArray == "ValueError: zero-size array to reduction operation minimum"
EmptyMax == "ValueError: max() arg is an empty sequence"
ZeroDivision == "ZeroDivisionError: float division by zero"
NodeNotInDigraph == "NetworkXError: The node is not in the digraph."
ValueErrors == {NodeNotFound, NegativeDimensions, ZeroSizeArray, EmptyMax}

\* ------------------------------------------------------------------ graphs
\* nx.DiGraph: nodes in insertion order, successors in adjacency order, and
\* the "weight" attribute of the edges that carry one.
Chain3 ==
    [nodes |-> <<"A", "B", "C">>,
     succ |-> ("A" :> <<"B">>) @@ ("B" :> <<"C">>) @@ ("C" :> <<>>),
     weight |-> (<<"A", "B">> :> 4) @@ (<<"B", "C">> :> 4)]

Single ==
    [nodes |-> <<"A">>,
     succ |-> ("A" :> <<>>),
     weight |-> <<>>]

SingleLoop ==
    [nodes |-> <<"A">>,
     succ |-> ("A" :> <<"A">>),
     weight |-> (<<"A", "A">> :> 4)]

Empty ==
    [nodes |-> <<>>,
     succ |-> <<>>,
     weight |-> <<>>]

\* a cycle with a self-loop, an edge without weight attribute and an
\* isolated node that was added first
Mixed ==
    [nodes |-> <<"D", "B", "A">>,
     succ |-> ("A" :> <<"B">>) @@ ("B" :> <<"B", "A">>) @@ ("D" :> <<>>),
     weight |-> (<<"B", "B">> :> 4) @@ (<<"B", "A">> :> 3)]

\* two routes into D, one of them through an edge of weight 0
Diamond ==
    [nodes |-> <<"A", "B", "C", "D">>,
     succ |-> ("A" :> <<"B", "C">>) @@ ("B" :> <<"D">>) @@ ("C" :> <<"D">>)
              @@ ("D" :> <<"B">>),
     weight |-> (<<"A", "B">> :> 2) @@ (<<"A", "C">> :> 4) @@ (<<"B", "D">> :> 0)
                @@ (<<"C", "D">> :> 1) @@ (<<"D", "B">> :> 4)]

Graphs == {Chain3, Single, SingleLoop, Empty, Mixed, Diamond}

Streams == [1 .. StreamLen -> DrawVals]

\* ----------------------------------------------------------------- helpers
Min(a, b) == IF a <= b THEN a ELSE b
Max(a, b) == IF a >= b THEN a ELSE b

RECURSIVE SeqSum(_)
SeqSum(s) == IF s = <<>> THEN 0 ELSE Head(s) + SeqSum(Tail(s))

RECURSIVE SeqSumSq(_)
SeqSumSq(s) == IF s = <<>> THEN 0 ELSE Head(s) * Head(s) + SeqSumSq(Tail(s))

\* the least and the greatest element; of no element there is none (numpy
\* raises: MinRaises below)
RECURSIVE SeqMin(_)
SeqMin(s) ==
    IF s = <<>> THEN NaN
    ELSE IF Len(s) = 1 THEN Head(s) ELSE Min(Head(s), SeqMin(Tail(s)))

RECURSIVE SeqMax(_)
SeqMax(s) ==
    IF s = <<>> THEN NaN
    ELSE IF Len(s) = 1 THEN Head(s) ELSE Max(Head(s), SeqMax(Tail(s)))

Range(s) == {s[i] : i \in DOMAIN s}

\* round(a / b) for a >= 0, b > 0: to the nearest integer, ties to even
RoundDiv(a, b) ==
    LET q == a \div b
        r == a % b
    IN  IF 2 * r < b THEN q
        ELSE IF 2 * r > b THEN q + 1
        ELSE IF q % 2 = 0 THEN q ELSE q + 1

\* a * a <= 4 * 10^8 * d, for 0 <= a < 10^6, without leaving 32 bits:
\* a = hi * 10^4 + lo
SquareAtMost(a, d) ==
    LET hi == a \div 10000
        lo == a % 10000
        rest == 4 * d - hi * hi
        q == (lo * lo) \div 10000
        r == (lo * lo) % 10000
    IN  /\ rest >= 0
        /\ 2 * hi * lo + q + (IF r > 0 THEN 1 ELSE 0) <= rest * 10000

\* the largest k in lo .. hi - 1 with ((2k - 1) * n)^2 <= 4 * 10^8 * d,
\* given that lo satisfies it and hi does not
RECURSIVE NearestRoot(_, _, _, _)
NearestRoot(lo, hi, d, n) ==
    IF hi - lo <= 1 THEN lo
    ELSE LET mid == (lo + hi) \div 2
         IN  IF SquareAtMost((2 * mid - 1) * n, d)
             THEN NearestRoot(mid, hi, d, n)
             ELSE NearestRoot(lo, mid, d, n)


\* ------------------------------------------------------ graph, stress, rng
\* fault: the membership test is missing
HasNodeAlways(G, n) == TRUE

\* n in G
HasNode(G, n) == n \in Range(G.nodes)

NumberOfNodes(G) == Len(G.nodes)

\* fault: every node of the graph is walked as a successor
SuccessorsAll(G, u) == G.nodes

Successors(G, u) == G.succ[u]

OutDegree(G, n) == Len(G.succ[n])

\* the default of G[u][v].get("weight", 0.5), in quarters
DefaultWeight == 2

EdgeWeight(G, u, v) ==
    IF <<u, v>> \in DOMAIN G.weight THEN G.weight[<<u, v>>] ELSE DefaultWeight

\* multipliers of the GCSIStressModel built from its fallback series
\* 0.5, 1.0, 1.5: the mean of each regime
multipliers == ("low" :> 2) @@ ("medium" :> 4) @@ ("high" :> 6)

get_stress_multiplier(scenario) ==
    IF scenario \in DOMAIN multipliers THEN multipliers[scenario] ELSE 4

\* fault: a product above 1.0 wraps around instead of being clamped
PPropagateWrap(edge_weight, stress_multiplier) ==
    IF stress_multiplier = NaN THEN NaN
    ELSE IF edge_weight * stress_multiplier > ProbOne
    THEN edge_weight * stress_multiplier - ProbOne
    ELSE edge_weight * stress_multiplier

\* p_propagate = min(edge_weight * stress_multiplier, 1.0), in sixteenths; a
\* product with nan is nan, and min(nan, 1.0) is its first argument
PPropagate(edge_weight, stress_multiplier) ==
    IF stress_multiplier = NaN THEN NaN
    ELSE Min(edge_weight * stress_multiplier, ProbOne)

\* fault: a successor that has failed is evaluated again
AlreadyFailedNever(v, failed) == FALSE

\* if v in failed: continue (lines 83-84)
AlreadyFailed(v, failed) == v \in failed

\* fault: a draw equal to the probability propagates too
DrawBelowOrEqual(draw, p_propagate) == p_propagate # NaN /\ draw <= p_propagate

\* rng.random() < p_propagate; every comparison with nan is false
DrawBelow(draw, p_propagate) == p_propagate # NaN /\ draw < p_propagate

\* fault: the seed is not put into the failed set
InitialFailedEmpty(seed_node) == {}

\* the set the cascade starts from
InitialFailed(seed_node) == {seed_node}

\* fault: the seed is counted in the impact
ImpactWithSeed(count) == count

\* impact of one cascade: the seed itself is not counted
Impact(count) == count - 1

\* fault: the divisor is not guarded
DivisorUnguarded(total_nodes) == total_nodes - 1

\* the divisor of the normalization
Divisor(total_nodes) == Max(total_nodes - 1, 1)

\* ------------------------------------------------------------- aggregation
\* round(float(cascade_sizes.mean()), 4), in 1/10^4; the mean of an empty
\* array is nan
RawFragility(sizes) ==
    IF sizes = <<>> THEN NaN
    ELSE RoundDiv(10000 * SeqSum(sizes), Len(sizes))

\* round(mean / divisor, 6), in 1/10^6
NormalizedFragility(sizes, divisor) ==
    IF sizes = <<>> THEN NaN
    ELSE RoundDiv(1000000 * SeqSum(sizes), Len(sizes) * divisor)

\* round(float(cascade_sizes.std()), 4), in 1/10^4: the population standard
\* deviation sqrt(n * sum(x^2) - sum(x)^2) / n, to the nearest 1/10^4 (a tie
\* needs 32 to divide n)
Std(sizes) ==
    LET n == Len(sizes)
        d == n * SeqSumSq(sizes) - SeqSum(sizes) * SeqSum(sizes)
    IN  IF sizes = <<>> THEN NaN
        ELSE IF d = 0 THEN 0 ELSE NearestRoot(0, 10000 * (d + 1), d, n)

\* fault: the minimum of an empty array is taken without complaint
MinRaisesNever(sizes) == FALSE

\* cascade_sizes.min() raises for an array of size zero (line 148)
MinRaises(sizes) == sizes = <<>>

FragilityRecord(node_id, stress_level, sizes, total_nodes) ==
    [node_id |-> node_id,
     stress_level |-> stress_level,
     raw_fragility |-> RawFragility(sizes),
     normalized_fragility |-> NormalizedFragility(sizes, Divisor(total_nodes)),
     std |-> Std(sizes),
     min_impact |-> SeqMin(sizes),
     max_impact |-> SeqMax(sizes)]

\* fault: the walk starts at the second node
BatchNodesSkipFirst(G) == SubSeq(G.nodes, 2, Len(G.nodes))

\* the nodes compute_fragility_all walks (line 178)
BatchNodes(G) == G.nodes

RECURSIVE SortedSeq(_)
SortedSeq(S) ==
    IF S = {} THEN <<>>
    ELSE LET least == CHOOSE x \in S : \A y \in S : x <= y
         IN  <<least>> \o SortedSeq(S \ {least})

\* fault: the sizes are sorted and deduplicated
ConvSizesSortedSet(sample_sizes) == SortedSeq(Range(sample_sizes))

\* the sizes convergence_test walks (line 236)
ConvSizes(sample_sizes) == sample_sizes

\* fault: a later node of the same out-degree replaces the best one
RECURSIVE MaxOutDegreeLast(_, _, _)
MaxOutDegreeLast(G, best, rest) ==
    IF rest = <<>> THEN best
    ELSE IF OutDegree(G, Head(rest)) >= OutDegree(G, best)
         THEN MaxOutDegreeLast(G, Head(rest), Tail(rest))
         ELSE MaxOutDegreeLast(G, best, Tail(rest))

\* max(G.nodes(), key=out_degree): the first node of maximal out-degree
RECURSIVE MaxOutDegree(_, _, _)
MaxOutDegree(G, best, rest) ==
    IF rest = <<>> THEN best
    ELSE IF OutDegree(G, Head(rest)) > OutDegree(G, best)
         THEN MaxOutDegree(G, Head(rest), Tail(rest))
         ELSE MaxOutDegree(G, best, Tail(rest))

\* ------------------------------------------------------------------- state
VARIABLES
    G,        \* the graph, owned by the caller and never written
    stream,   \* the draws of random.Random(RANDOM_SEED), one period
    top,      \* the operation the caller is running, or "idle"
    out,      \* what the last operation returned or raised
    prev,     \* what the direct simulate_cascade call before it returned
    conv,     \* frame of convergence_test
    batch,    \* frame of compute_fragility_all
    est,      \* frame of compute_node_fragility
    sim,      \* frame of simulate_cascade
    rng,      \* the random.Random object in use: draws taken so far
    estlog    \* history: the compute_node_fragility calls of this operation

vars == <<G, stream, top, out, prev, conv, batch, est, sim, rng, estlog>>

Off == [pc |-> "off"]
NoRng == 0 - 1
Nothing == [kind |-> "none"]

\* config.RANDOM_SEED
RANDOM_SEED == 42

\* fault: the generator is seeded from the number of estimations run so far,
\* so that no two of them start at the same place of the stream
NewRandomCounter(seed) == Len(estlog)

\* random.Random(seed): a generator that has drawn nothing yet
NewRandom(seed) == 0

\* fault: every cascade gets a generator that is seeded anew
CascadeRngReseeded(pos) == 0

\* the generator simulate_cascade is given at line 136: the one object rng of
\* the estimation, wherever it has got to
CascadeRng(pos) == pos

\* rng.random() of a generator at position pos
Random(pos) == stream[(pos % StreamLen) + 1]

Init ==
    /\ G \in Graphs
    /\ stream \in Streams
    /\ top = "idle"
    /\ out = Nothing
    /\ prev = Nothing
    /\ conv = Off
    /\ batch = Off
    /\ est = Off
    /\ sim = Off
    /\ rng = NoRng
    /\ estlog = <<>>

\* the frame of simulate_cascade after lines 77-78; start, dequeues, level1,
\* enqueued, dequeued and evaluated are history: where the generator was, the
\* rounds of the while loop, the failed set after the first of them, the nodes
\* put into and taken from the queue, the edges a draw was taken for
SimFrame(seed_node, stress_multiplier, start) ==
    [pc |-> "while",
     seed_node |-> seed_node,
     stress_multiplier |-> stress_multiplier,
     failed |-> InitialFailed(seed_node),
     queue |-> <<seed_node>>,
     u |-> None,
     todo |-> <<>>,
     start |-> start,
     dequeues |-> 0,
     level1 |-> InitialFailed(seed_node),
     enqueued |-> <<seed_node>>,
     dequeued |-> <<>>,
     evaluated |-> <<>>]

\* the frame of compute_node_fragility on entry
EstFrame(node_id, stress_level, n_cascades) ==
    [pc |-> "enter",
     node_id |-> node_id,
     stress_level |-> stress_level,
     n_cascades |-> n_cascades]

EstLogEntry(node_id, stress_level, n_cascades) ==
    [node_id |-> node_id,
     stress_level |-> stress_level,
     n_cascades |-> n_cascades,
     done |-> FALSE]

\* fault: the batch and the convergence loop catch the exception of an
\* estimation and return the records they have so far
CaughtByLoop(op, error) ==
    IF op = "all"
    THEN [kind |-> "value", op |-> op, value |-> batch.results,
          stress_level |-> batch.stress_level, n_cascades |-> batch.n_cascades]
    ELSE IF op = "conv"
    THEN [kind |-> "value", op |-> op, value |-> conv.results,
          sample_sizes |-> conv.given, test_node |-> conv.test_node,
          omitted |-> conv.omitted]
    ELSE [kind |-> "error", op |-> op, value |-> error]

\* what the caller of operation op gets when error is raised below it: no
\* frame has a try statement (lines 136, 188, 237)
Uncaught(op, error) == [kind |-> "error", op |-> op, value |-> error]

\* an exception leaves every frame of the operation at once; the history
\* keeps what the estimation under way raised
Raise(op, error) ==
    /\ out' = Uncaught(op, error)
    /\ top' = "idle"
    /\ conv' = Off
    /\ batch' = Off
    /\ est' = Off
    /\ sim' = Off
    /\ rng' = NoRng
    /\ estlog' = IF estlog = <<>> THEN estlog
                 ELSE [estlog EXCEPT ![Len(estlog)] =
                          [node_id |-> @.node_id,
                           stress_level |-> @.stress_level,
                           n_cascades |-> @.n_cascades,
                           done |-> FALSE,
                           raised |-> error]]
    /\ UNCHANGED <<G, stream, prev>>


\* what a new operation of the caller starts from
Begin(op) ==
    /\ top = "idle"
    /\ out = Nothing
    /\ top' = op
    /\ out' = Nothing
    /\ prev' = Nothing

\* the caller has taken the outcome of the last operation
Discard ==
    /\ top = "idle"
    /\ out # Nothing
    /\ out' = Nothing
    /\ prev' = Nothing
    /\ estlog' = <<>>
    /\ UNCHANGED <<G, stream, top, conv, batch, est, sim, rng>>

\* --------------------------------------------------------- simulate_cascade
\* a caller runs simulate_cascade(G, seed_node, m, rng) with a generator it
\* has just seeded (lines 71-78); `prev` keeps the outcome of the call before
\* it when that call had the same seed_node
SimulateCall(seed_node, m) ==
    /\ top = "idle"
    /\ out = Nothing \/ (out.kind = "value" /\ out.op = "simulate")
    /\ HasNode(G, seed_node)
    /\ top' = "simulate"
    /\ out' = Nothing
    /\ prev' = IF out # Nothing /\ out.seed_node = seed_node THEN out ELSE Nothing
    /\ sim' = SimFrame(seed_node, m, NewRandom(RANDOM_SEED))
    /\ rng' = NewRandom(RANDOM_SEED)
    /\ UNCHANGED <<G, stream, conv, batch, est, estlog>>

\* the same call with a seed_node that is not in G (lines 71-72): the
\* generator the caller passed is where it was seeded
SimulateCallRaise(seed_node, m) ==
    /\ top = "idle"
    /\ out = Nothing
    /\ ~HasNode(G, seed_node)
    /\ out' = [kind |-> "error", op |-> "simulate", value |-> NodeNotFound,
               seed_node |-> seed_node,
               start |-> NewRandom(RANDOM_SEED),
               end |-> NewRandom(RANDOM_SEED)]
    /\ UNCHANGED <<G, stream, top, prev, conv, batch, est, sim, rng, estlog>>

\* while queue: u = queue.popleft(); the for loop starts (lines 80-82);
\* G.successors(u) raises for a node that is not in the graph
SimDequeue ==
    /\ sim.pc = "while"
    /\ sim.queue # <<>>
    /\ LET u == Head(sim.queue)
       IN  IF u \notin DOMAIN G.succ
           THEN Raise(top, NodeNotInDigraph)
           ELSE /\ sim' = [sim EXCEPT
                              !.pc = IF Successors(G, u) = <<>> THEN "while"
                                     ELSE "for",
                              !.queue = Tail(sim.queue),
                              !.u = u,
                              !.todo = Successors(G, u),
                              !.dequeues = sim.dequeues + 1,
                              !.dequeued = Append(sim.dequeued, u)]
                /\ UNCHANGED <<G, stream, top, out, prev, conv, batch, est, rng,
                               estlog>>

\* one round of the for loop: the next successor v of u (lines 82-92)
SimEdge ==
    /\ sim.pc = "for"
    /\ LET v == Head(sim.todo)
           rest == Tail(sim.todo)
           pc == IF rest = <<>> THEN "while" ELSE "for"
           p_propagate == PPropagate(EdgeWeight(G, sim.u, v), sim.stress_multiplier)
           fails == DrawBelow(Random(rng), p_propagate)
           failed == IF fails THEN sim.failed \cup {v} ELSE sim.failed
       IN  IF AlreadyFailed(v, sim.failed)
           THEN /\ sim' = [sim EXCEPT !.pc = pc, !.todo = rest]
                /\ rng' = rng
           ELSE /\ sim' = [sim EXCEPT
                              !.pc = pc,
                              !.todo = rest,
                              !.failed = failed,
                              !.queue = IF fails THEN Append(sim.queue, v)
                                        ELSE sim.queue,
                              !.enqueued = IF fails THEN Append(sim.enqueued, v)
                                           ELSE sim.enqueued,
                              !.evaluated = Append(sim.evaluated, <<sim.u, v>>),
                              !.level1 = IF sim.dequeues = 1 THEN failed
                                         ELSE sim.level1]
                /\ rng' = rng + 1
    /\ UNCHANGED <<G, stream, top, out, prev, conv, batch, est, estlog>>

\* the queue is empty: return len(failed) (line 94), to the caller or into
\* cascade_sizes[i] of compute_node_fragility (lines 136-137)
SimReturn ==
    /\ sim.pc = "while"
    /\ sim.queue = <<>>
    /\ LET count == Cardinality(sim.failed)
       IN  IF top = "simulate"
           THEN /\ out' = [kind |-> "value", op |-> "simulate",
                           seed_node |-> sim.seed_node,
                           stress_multiplier |-> sim.stress_multiplier,
                           start |-> sim.start,
                           end |-> rng,
                           level1 |-> sim.level1,
                           value |-> count]
                /\ top' = "idle"
                /\ rng' = NoRng
                /\ est' = est
           ELSE /\ est' = [est EXCEPT
                              !.pc = "loop",
                              !.cascade_sizes = Append(est.cascade_sizes,
                                                       Max(0, Impact(count))),
                              !.i = est.i + 1,
                              !.marks = Append(est.marks, rng)]
                /\ UNCHANGED <<out, top, rng>>
    /\ sim' = Off
    /\ UNCHANGED <<G, stream, prev, conv, batch, estlog>>


\* --------------------------------------------------- compute_node_fragility
\* Callers pass n_cascades, sample_sizes and rng themselves: the defaults
\* (500 cascades, the sizes 50 .. 500 of config, an unseeded generator) are
\* beyond the bounds of the model.
\* a caller runs compute_node_fragility(G, node_id, stress_level, n_cascades)
EstimateCall(node_id, stress_level, n_cascades) ==
    /\ Begin("estimate")
    /\ est' = EstFrame(node_id, stress_level, n_cascades)
    /\ estlog' = <<EstLogEntry(node_id, stress_level, n_cascades)>>
    /\ UNCHANGED <<G, stream, conv, batch, sim, rng>>

\* a caller that has the records of compute_fragility_all runs
\* compute_node_fragility itself for one node of the graph, with the stress
\* level and n_cascades of the batch; `prev` keeps the outcome of the batch
EstimateAfterAll(node_id) ==
    /\ top = "idle"
    /\ out.kind = "value"
    /\ out.op = "all"
    /\ HasNode(G, node_id)
    /\ top' = "estimate"
    /\ out' = Nothing
    /\ prev' = out
    /\ est' = EstFrame(node_id, out.stress_level, out.n_cascades)
    /\ estlog' = <<EstLogEntry(node_id, out.stress_level, out.n_cascades)>>
    /\ UNCHANGED <<G, stream, conv, batch, sim, rng>>

\* lines 128-132: the multiplier, the generator, the node count, the array
EstEnter ==
    /\ est.pc = "enter"
    /\ IF est.n_cascades < 0
       THEN Raise(top, NegativeDimensions)
       ELSE /\ rng' = NewRandom(RANDOM_SEED)
            /\ est' = [pc |-> "loop",
                       node_id |-> est.node_id,
                       stress_level |-> est.stress_level,
                       n_cascades |-> est.n_cascades,
                       stress_mult |-> get_stress_multiplier(est.stress_level),
                       total_nodes |-> NumberOfNodes(G),
                       cascade_sizes |-> <<>>,
                       i |-> 0,
                       marks |-> <<rng'>>,
                       starts |-> <<>>]
            /\ UNCHANGED <<G, stream, top, out, prev, conv, batch, sim, estlog>>

\* for i in range(n_cascades): the call of simulate_cascade (lines 134-136,
\* 71-78)
EstIterate ==
    /\ est.pc = "loop"
    /\ est.i < est.n_cascades
    /\ IF ~HasNode(G, est.node_id)
       THEN Raise(top, NodeNotFound)
       ELSE /\ sim' = SimFrame(est.node_id, est.stress_mult, CascadeRng(rng))
            /\ rng' = CascadeRng(rng)
            /\ est' = [est EXCEPT !.pc = "call",
                                  !.starts = Append(est.starts, rng')]
            /\ UNCHANGED <<G, stream, top, out, prev, conv, batch, estlog>>

\* the entry of convergence_test's result list for one record (lines 238-243)
ConvergenceRecord(n, res) ==
    [n_cascades |-> n,
     mean |-> res.raw_fragility,
     std |-> res.std,
     normalized |-> res.normalized_fragility]

\* the loop is over: aggregate and return the record (lines 139-150), to the
\* caller, to compute_fragility_all (188-189) or to convergence_test (237-243)
EstAggregate ==
    /\ est.pc = "loop"
    /\ est.i >= est.n_cascades
    /\ IF Divisor(est.total_nodes) = 0
       THEN Raise(top, ZeroDivision)
       ELSE IF MinRaises(est.cascade_sizes)
       THEN Raise(top, ZeroSizeArray)
       ELSE LET res == FragilityRecord(est.node_id, est.stress_level,
                                       est.cascade_sizes, est.total_nodes)
                last == Len(estlog)
            IN  /\ estlog' = [estlog EXCEPT
                                 ![last] = [node_id |-> est.node_id,
                                            stress_level |-> est.stress_level,
                                            n_cascades |-> est.n_cascades,
                                            done |-> TRUE,
                                            res |-> res,
                                            sizes |-> est.cascade_sizes,
                                            marks |-> est.marks,
                                            starts |-> est.starts]]
                /\ est' = Off
                /\ rng' = NoRng
                /\ IF top = "estimate"
                   THEN /\ out' = [kind |-> "value", op |-> "estimate",
                                   value |-> res]
                        /\ top' = "idle"
                        /\ UNCHANGED <<conv, batch>>
                   ELSE IF top = "all"
                   THEN /\ batch' = [batch EXCEPT
                                        !.pc = "loop",
                                        !.results = Append(batch.results, res),
                                        !.i = batch.i + 1]
                        /\ UNCHANGED <<out, top, conv>>
                   ELSE /\ conv' = [conv EXCEPT
                                       !.pc = "loop",
                                       !.results = Append(conv.results,
                                           ConvergenceRecord(est.n_cascades, res)),
                                       !.k = conv.k + 1]
                        /\ UNCHANGED <<out, top, batch>>
                /\ UNCHANGED <<G, stream, prev, sim>>

\* ---------------------------------------------------- compute_fragility_all
\* a caller runs compute_fragility_all(G, stress_level, n_cascades)
\* (lines 178-180)
AllCall(stress_level, n_cascades) ==
    /\ Begin("all")
    /\ batch' = [pc |-> "loop",
                 stress_level |-> stress_level,
                 n_cascades |-> n_cascades,
                 nodes |-> BatchNodes(G),
                 i |-> 0,
                 results |-> <<>>]
    /\ UNCHANGED <<G, stream, conv, est, sim, rng, estlog>>

\* for i, node in enumerate(nodes): the call of the estimator (lines 187-188)
AllIterate ==
    /\ batch.pc = "loop"
    /\ batch.i < Len(batch.nodes)
    /\ LET node == batch.nodes[batch.i + 1]
       IN  /\ est' = EstFrame(node, batch.stress_level, batch.n_cascades)
           /\ estlog' = Append(estlog,
                  EstLogEntry(node, batch.stress_level, batch.n_cascades))
    /\ batch' = [batch EXCEPT !.pc = "call"]
    /\ UNCHANGED <<G, stream, top, out, prev, conv, sim, rng>>

\* return results (line 195)
AllReturn ==
    /\ batch.pc = "loop"
    /\ batch.i >= Len(batch.nodes)
    /\ out' = [kind |-> "value", op |-> "all", value |-> batch.results,
               stress_level |-> batch.stress_level,
               n_cascades |-> batch.n_cascades]
    /\ top' = "idle"
    /\ batch' = Off
    /\ UNCHANGED <<G, stream, prev, conv, est, sim, rng, estlog>>

\* --------------------------------------------------------- convergence_test
\* a caller runs convergence_test(G, test_node, stress_level, sample_sizes);
\* test_node = None picks the node of highest out-degree (lines 226-235)
ConvCall(test_node, stress_level, sample_sizes) ==
    /\ test_node = None => G.nodes # <<>>
    /\ Begin("conv")
    /\ conv' = [pc |-> "loop",
                test_node |-> IF test_node = None
                              THEN MaxOutDegree(G, Head(G.nodes), Tail(G.nodes))
                              ELSE test_node,
                stress_level |-> stress_level,
                sample_sizes |-> ConvSizes(sample_sizes),
                given |-> sample_sizes,
                omitted |-> test_node = None,
                k |-> 0,
                results |-> <<>>]
    /\ UNCHANGED <<G, stream, batch, est, sim, rng, estlog>>

\* max() of an empty node view raises (line 228)
ConvCallRaise(test_node, stress_level, sample_sizes) ==
    /\ top = "idle"
    /\ out = Nothing
    /\ test_node = None
    /\ G.nodes = <<>>
    /\ out' = [kind |-> "error", op |-> "conv", value |-> EmptyMax]
    /\ UNCHANGED <<G, stream, top, prev, conv, batch, est, sim, rng, estlog>>

\* for n in sample_sizes: the call of the estimator (lines 236-237)
ConvIterate ==
    /\ conv.pc = "loop"
    /\ conv.k < Len(conv.sample_sizes)
    /\ LET n == conv.sample_sizes[conv.k + 1]
       IN  /\ est' = EstFrame(conv.test_node, conv.stress_level, n)
           /\ estlog' = Append(estlog,
                  EstLogEntry(conv.test_node, conv.stress_level, n))
    /\ conv' = [conv EXCEPT !.pc = "call"]
    /\ UNCHANGED <<G, stream, top, out, prev, batch, sim, rng>>

\* return results (line 246)
ConvReturn ==
    /\ conv.pc = "loop"
    /\ conv.k >= Len(conv.sample_sizes)
    /\ out' = [kind |-> "value", op |-> "conv", value |-> conv.results,
               sample_sizes |-> conv.given,
               test_node |-> conv.test_node,
               omitted |-> conv.omitted]
    /\ top' = "idle"
    /\ conv' = Off
    /\ UNCHANGED <<G, stream, prev, batch, est, sim, rng, estlog>>

\* ------------------------------------------------------------ specification
\* the node arguments a caller passes: the nodes of G and one that is absent
NodeArgs == Range(G.nodes) \cup {Absent}

\* the sample_sizes arguments a caller passes
SizeSeqs ==
    {<<>>, <<0 - 1>>} \cup {<<n, m>> : n \in 0 .. MaxSamples, m \in 0 .. MaxSamples}

Next ==
    \/ Discard
    \/ \E v \in NodeArgs, m \in MultVals : SimulateCall(v, m)
    \/ \E v \in NodeArgs, m \in MultVals : SimulateCallRaise(v, m)
    \/ SimDequeue
    \/ SimEdge
    \/ SimReturn
    \/ \E v \in NodeArgs, l \in Scenarios, n \in NSamples : EstimateCall(v, l, n)
    \/ \E v \in NodeArgs : EstimateAfterAll(v)
    \/ EstEnter
    \/ EstIterate
    \/ EstAggregate
    \/ \E l \in Scenarios, n \in NSamples : AllCall(l, n)
    \/ AllIterate
    \/ AllReturn
    \/ \E v \in NodeArgs \cup {None}, l \in Scenarios, z \in SizeSeqs : ConvCall(v, l, z)
    \/ \E l \in Scenarios, z \in SizeSeqs : ConvCallRaise(None, l, z)
    \/ ConvIterate
    \/ ConvReturn

Spec == Init /\ [][Next]_vars

\* the runs of simulate_cascade: those a caller starts itself and those of
\* one compute_node_fragility call (the batch and the convergence loop only
\* repeat that call)
NextCascades ==
    \/ Discard
    \/ \E v \in NodeArgs, m \in MultVals : SimulateCall(v, m)
    \/ \E v \in NodeArgs, m \in MultVals : SimulateCallRaise(v, m)
    \/ SimDequeue
    \/ SimEdge
    \/ SimReturn
    \/ \E v \in NodeArgs, l \in Scenarios, n \in NSamples : EstimateCall(v, l, n)
    \/ EstEnter
    \/ EstIterate
    \/ EstAggregate

\* a call of simulate_cascade that has begun is not abandoned: the
\* interpreter runs the next step of the function as long as there is one
FairSpec ==
    /\ Init
    /\ [][NextCascades]_vars
    /\ WF_vars(SimDequeue)
    /\ WF_vars(SimEdge)
    /\ WF_vars(SimReturn)



\* ------------------------------------------------------------------ claims
\* the entries of estlog whose call has returned a record
Returned == {i \in DOMAIN estlog : estlog[i].done}

SimulateValue(o) == o.kind = "value" /\ o.op = "simulate"

\* two direct runs of simulate_cascade, one after the other, with the same
\* seed node and the generator at the same position
SamePlace ==
    /\ SimulateValue(prev)
    /\ SimulateValue(out)
    /\ prev.seed_node = out.seed_node
    /\ prev.start = out.start

\* the nodes reachable from the nodes of S along directed edges
RECURSIVE ReachFrom(_)
ReachFrom(S) ==
    LET step == S \cup UNION {Range(G.succ[u]) : u \in S}
    IN  IF step = S THEN S ELSE ReachFrom(step)

\* every edge reachable from node v propagates with probability 1 under m
Certain(v, m) ==
    \A u \in ReachFrom({v}) : \A w \in Range(G.succ[u]) :
        EdgeWeight(G, u, w) * m >= ProbOne

\* C1: simulate_cascade returns a count c with 1 <= c <= |V(G)|, both the
\* value about to be returned when the queue has emptied and the value a
\* direct caller has received.
C1_CountInRange ==
    /\ (sim.pc = "while" /\ sim.queue = <<>>)
          => Cardinality(sim.failed) \in 1 .. NumberOfNodes(G)
    /\ SimulateValue(out) => out.value \in 1 .. NumberOfNodes(G)

\* C1 witness: a cascade from a seed in a four-node graph failed every node.
C1_Witness ==
    /\ SimulateValue(out)
    /\ NumberOfNodes(G) = 4
    /\ out.value = 4

\* m1 <= m2 of two multipliers: nan is not ordered
MultAtMost(m1, m2) == m1 # NaN /\ m2 # NaN /\ m1 <= m2

\* C2 as stated: of two runs with the same graph, seed and stream position,
\* the one with the larger multiplier never returns the smaller count.
C2_CountMonotone ==
    SamePlace
        => /\ MultAtMost(prev.stress_multiplier, out.stress_multiplier)
                => prev.value <= out.value
           /\ MultAtMost(out.stress_multiplier, prev.stress_multiplier)
                => out.value <= prev.value

\* the part of C2 that holds of one pair of runs, lo having the smaller
\* multiplier
FirstLevelMonotone(lo, hi) ==
    /\ lo.level1 \subseteq hi.level1
    /\ Cardinality(lo.level1) <= hi.value

\* C2 amended: of two runs with the same graph, seed and stream position,
\* every node failed while the seed itself was processed under the smaller
\* multiplier is also failed at that point under the larger one, and the
\* count returned under the larger multiplier is at least the number of nodes
\* the other run had failed at that point.
C2_FirstLevelMonotone ==
    SamePlace
        => /\ MultAtMost(prev.stress_multiplier, out.stress_multiplier)
                => FirstLevelMonotone(prev, out)
           /\ MultAtMost(out.stress_multiplier, prev.stress_multiplier)
                => FirstLevelMonotone(out, prev)

\* C2 witness: the larger multiplier failed more successors of the seed, and
\* still returned the smaller count.
C2_Witness ==
    /\ SamePlace
    /\ MultAtMost(prev.stress_multiplier, out.stress_multiplier)
    /\ prev.stress_multiplier # out.stress_multiplier
    /\ prev.level1 # out.level1
    /\ prev.level1 \subseteq out.level1
    /\ out.value < prev.value

\* C3: two compute_node_fragility calls with the same node, stress level and
\* n_cascades return the same record from the same cascade outcomes, and two
\* simulate_cascade runs with the same seed, multiplier and generator position
\* return the same count and leave the generator at the same position.
C3_Deterministic ==
    /\ \A i \in Returned : \A j \in Returned :
          (/\ estlog[i].node_id = estlog[j].node_id
           /\ estlog[i].stress_level = estlog[j].stress_level
           /\ estlog[i].n_cascades = estlog[j].n_cascades)
             => /\ estlog[i].res = estlog[j].res
                /\ estlog[i].sizes = estlog[j].sizes
    /\ (SamePlace /\ prev.stress_multiplier = out.stress_multiplier)
          => /\ prev.value = out.value
             /\ prev.end = out.end

\* C3 witness: the same estimation has returned twice, with cascades of
\* different sizes in it.
C3_Witness ==
    \E i \in Returned : \E j \in Returned :
        /\ i < j
        /\ estlog[i].node_id = estlog[j].node_id
        /\ estlog[i].n_cascades = estlog[j].n_cascades
        /\ estlog[j].res.std > 0

\* run i is replayed by the first cascades of run j: cascade for cascade the
\* same places of the stream and the same outcomes
Replays(i, j) ==
    /\ estlog[i].marks = SubSeq(estlog[j].marks, 1, estlog[i].n_cascades + 1)
    /\ estlog[i].sizes = SubSeq(estlog[j].sizes, 1, estlog[i].n_cascades)

\* two estimations of one operation for the same node and stress level, i
\* with the smaller sample size
Nested(i, j) ==
    /\ estlog[i].node_id = estlog[j].node_id
    /\ estlog[i].stress_level = estlog[j].stress_level
    /\ estlog[i].n_cascades < estlog[j].n_cascades

\* C4 as stated: the estimation at the smaller sample size does not replay
\* the draws of the first cascades of the estimation at the larger one
\* (stated of the estimations that draw at all).
C4_NotReplayed ==
    \A i \in Returned : \A j \in Returned :
        (Nested(i, j) /\ estlog[i].marks[Len(estlog[i].marks)] > 0)
            => ~Replays(i, j)

\* C4 amended: the estimations of one convergence_test call are nested: the
\* estimation at sample size n consumes exactly the draws, and yields exactly
\* the cascade outcomes, of the first n cascades of the estimation at any
\* larger sample size.
C4_Replayed ==
    \A i \in Returned : \A j \in Returned : Nested(i, j) => Replays(i, j)

\* C4 witness: convergence_test has run sizes 1 and 2, the first cascade drew
\* from the stream and the second one ended differently.
C4_Witness ==
    /\ top = "conv"
    /\ \E i \in Returned : \E j \in Returned :
          /\ Nested(i, j)
          /\ estlog[i].marks[Len(estlog[i].marks)] > 0
          /\ estlog[j].sizes[1] # estlog[j].sizes[2]


\* C5: in a graph of at least two nodes every returned record has
\* 0 <= normalized_fragility <= 1, and every cascade's excess impact lies in
\* 0 .. total_nodes - 1, in the records returned and in the array being
\* filled.
C5_NormalizedBound ==
    NumberOfNodes(G) >= 2
        => /\ \A i \in Returned :
                /\ estlog[i].res.normalized_fragility \in 0 .. 1000000
                /\ \A k \in DOMAIN estlog[i].sizes :
                      estlog[i].sizes[k] \in 0 .. NumberOfNodes(G) - 1
           /\ est.pc \in {"loop", "call"}
                => \A k \in DOMAIN est.cascade_sizes :
                      est.cascade_sizes[k] \in 0 .. NumberOfNodes(G) - 1

\* C5 witness: a record with normalized_fragility 1 in a graph of three
\* nodes.
C5_Witness ==
    /\ NumberOfNodes(G) = 3
    /\ \E i \in Returned : estlog[i].res.normalized_fragility = 1000000

\* the estimation that raised was asked for a node that is not in the graph
\* or for fewer than one cascade
BadArguments(e) == ~HasNode(G, e.node_id) \/ e.n_cascades < 1

\* C6: in a graph of exactly one node every estimation of that node with
\* n_cascades >= 1 returns a record with normalized_fragility 0; an estimation
\* raises only for an absent node or fewer than one cascade, never a division
\* error.
C6_SingleNode ==
    NumberOfNodes(G) = 1
        => /\ \A i \in Returned : estlog[i].res.normalized_fragility = 0
           /\ (out.kind = "error" /\ out.op \in {"estimate", "all", "conv"})
                => /\ out.value # ZeroDivision
                   /\ estlog # <<>>
                   /\ BadArguments(estlog[Len(estlog)])

\* C6 witness: the node of a one-node graph with a self-loop has been
\* estimated over two cascades.
C6_Witness ==
    /\ G = SingleLoop
    /\ out.kind = "value"
    /\ out.op = "estimate"
    /\ estlog[1].n_cascades = 2
    /\ out.value.normalized_fragility = 0

\* C7: when every edge reachable from the node propagates with probability 1
\* under the multiplier of the stress level, the record has raw fragility
\* (reachable nodes - 1), std 0 and min_impact = max_impact = that number; on
\* the chain A -> B -> C with weights 1.0 under multiplier 1.0 the record of A
\* is raw 2, normalized 1, std 0, min = max = 2.
C7_CertainPropagation ==
    \A i \in Returned :
        LET e == estlog[i]
            excess == Cardinality(ReachFrom({e.node_id})) - 1
        IN  /\ Certain(e.node_id, get_stress_multiplier(e.stress_level))
                => /\ e.res.raw_fragility = 10000 * excess
                   /\ e.res.std = 0
                   /\ e.res.min_impact = excess
                   /\ e.res.max_impact = excess
                   /\ \A k \in DOMAIN e.sizes : e.sizes[k] = excess
            /\ (G = Chain3 /\ e.node_id = "A" /\ e.stress_level = "medium")
                => e.res = [node_id |-> "A", stress_level |-> "medium",
                            raw_fragility |-> 20000,
                            normalized_fragility |-> 1000000,
                            std |-> 0, min_impact |-> 2, max_impact |-> 2]

\* C7 witness: A of the chain has been estimated over two cascades under
\* multiplier 1.0 with a stream that holds a draw just below 1.
C7_Witness ==
    /\ G = Chain3
    /\ 15 \in Range(stream)
    /\ \E i \in Returned :
          /\ estlog[i].node_id = "A"
          /\ estlog[i].stress_level = "medium"
          /\ estlog[i].n_cascades = 2

\* C8: a seed without outgoing edges gives count 1 and takes no draw: every
\* record of such a node is raw 0, normalized 0, std 0, min = max = 0 and its
\* cascades leave the generator where it was seeded, and a direct run returns
\* 1 with the generator unmoved.
C8_NoSuccessors ==
    /\ \A i \in Returned :
          LET e == estlog[i]
          IN  G.succ[e.node_id] = <<>>
                => /\ e.res.raw_fragility = 0
                   /\ e.res.normalized_fragility = 0
                   /\ e.res.std = 0
                   /\ e.res.min_impact = 0
                   /\ e.res.max_impact = 0
                   /\ \A k \in DOMAIN e.marks : e.marks[k] = 0
    /\ (SimulateValue(out) /\ G.succ[out.seed_node] = <<>>)
          => /\ out.value = 1
             /\ out.end = out.start

\* C8 witness: the isolated node D of the three-node graph has been estimated
\* over two cascades under the largest multiplier.
C8_Witness ==
    /\ G = Mixed
    /\ \E i \in Returned :
          /\ estlog[i].node_id = "D"
          /\ estlog[i].stress_level = "high"
          /\ estlog[i].n_cascades = 2

\* C9: compute_fragility_all returns one record per node, the i-th for the
\* i-th node of the graph, and has called the estimator exactly once per node
\* in that order.
C9_OnePerNode ==
    (out.kind = "value" /\ out.op = "all")
        => /\ Len(out.value) = NumberOfNodes(G)
           /\ Len(estlog) = NumberOfNodes(G)
           /\ \A i \in DOMAIN G.nodes :
                 /\ out.value[i].node_id = G.nodes[i]
                 /\ estlog[i].node_id = G.nodes[i]
                 /\ estlog[i].done
                 /\ estlog[i].res = out.value[i]

\* C9 witness: the batch over the three-node graph has returned.
C9_Witness ==
    /\ out.kind = "value"
    /\ out.op = "all"
    /\ G = Mixed
    /\ Len(out.value) = 3

\* C10: convergence_test returns one record per element of sample_sizes, the
\* i-th with n_cascades = sample_sizes[i], whatever the order of the sizes and
\* with one record for each duplicate.
C10_OnePerSize ==
    (out.kind = "value" /\ out.op = "conv")
        => /\ Len(out.value) = Len(out.sample_sizes)
           /\ \A i \in DOMAIN out.sample_sizes :
                 out.value[i].n_cascades = out.sample_sizes[i]

\* C10 witness: convergence_test has returned for sizes given in decreasing
\* order.
C10_Witness ==
    /\ out.kind = "value"
    /\ out.op = "conv"
    /\ Len(out.sample_sizes) = 2
    /\ out.sample_sizes[1] > out.sample_sizes[2]

\* node n is the first node of the graph's iteration order among those of
\* maximal out-degree
FirstOfMaxOutDegree(n) ==
    \E i \in DOMAIN G.nodes :
        /\ G.nodes[i] = n
        /\ \A j \in DOMAIN G.nodes :
              /\ Len(G.succ[G.nodes[j]]) <= Len(G.succ[n])
              /\ j < i => Len(G.succ[G.nodes[j]]) < Len(G.succ[n])

\* C11: convergence_test called without test_node evaluates the first node, in
\* the graph's iteration order, of maximal out-degree: every estimation the
\* call runs is for that node, and there is one per sample size when it
\* returns.
C11_DefaultTestNode ==
    /\ (conv # Off /\ conv.omitted)
          => /\ FirstOfMaxOutDegree(conv.test_node)
             /\ \A i \in DOMAIN estlog : estlog[i].node_id = conv.test_node
    /\ (out.kind = "value" /\ out.op = "conv" /\ out.omitted)
          => /\ FirstOfMaxOutDegree(out.test_node)
             /\ Len(estlog) = Len(out.sample_sizes)
             /\ \A i \in DOMAIN estlog : estlog[i].node_id = out.test_node

\* C11 witness: two nodes of the chain share the maximal out-degree, and the
\* call without test_node has returned two records for the first of them.
C11_Witness ==
    /\ out.kind = "value"
    /\ out.op = "conv"
    /\ out.omitted
    /\ Len(out.value) = 2
    /\ G = Chain3
    /\ out.test_node = "A"

\* the step in which a direct simulate_cascade call raises
SimulateRaises == out' # out /\ out'.kind = "error" /\ out'.op = "simulate"

\* C12: simulate_cascade with a seed_node that is not in the graph raises the
\* node-not-found ValueError before any traversal: no frame of a cascade ever
\* holds a seed that is not in the graph and no count is returned for one, and
\* the step that raises starts from no traversal, takes no draw from the
\* generator and leaves the graph as it was.
C12_AbsentSeed ==
    /\ [](sim # Off => sim.seed_node \in Range(G.nodes))
    /\ [](SimulateValue(out) => out.seed_node \in Range(G.nodes))
    /\ [][SimulateRaises
            => /\ out'.value = NodeNotFound
               /\ out'.seed_node \notin Range(G.nodes)
               /\ out'.end = out'.start
               /\ sim = Off /\ sim' = Off
               /\ rng' = rng
               /\ G' = G]_vars

\* C12 witness: a direct call on the four-node graph has raised for a seed
\* that is not one of its nodes.
C12_Witness ==
    /\ G = Diamond
    /\ out.kind = "error"
    /\ out.op = "simulate"
    /\ out.seed_node = Absent

\* C13 as stated: compute_node_fragility and convergence_test called with a
\* node that is not in the graph return nothing and raise the node-not-found
\* error, whatever n_cascades and whatever the sample sizes, none included
\* (stated of the counts that are not negative).
C13_AbsentNodeFails ==
    /\ (out.kind = "value" /\ out.op = "conv")
          => out.test_node \in Range(G.nodes)
    /\ (out.kind = "value" /\ out.op = "estimate")
          => out.value.node_id \in Range(G.nodes)
    /\ (/\ out.kind = "error"
        /\ out.op \in {"estimate", "conv"}
        /\ estlog # <<>>
        /\ estlog[Len(estlog)].n_cascades >= 0
        /\ estlog[Len(estlog)].node_id \notin Range(G.nodes))
          => out.value = NodeNotFound

\* the fields of a fragility record that hold floats
FloatFields(res) == {res.raw_fragility, res.normalized_fragility, res.std}

\* C14: compute_node_fragility with n_cascades < 1 returns no record and
\* raises a ValueError (at the allocation of the array when n_cascades < 0,
\* at the minimum of the empty array when it is 0); no record that is
\* returned holds a nan.
C14_NoSamples ==
    /\ \A i \in Returned :
          /\ estlog[i].n_cascades >= 1
          /\ NaN \notin FloatFields(estlog[i].res)
          /\ estlog[i].res.min_impact # NaN
          /\ estlog[i].res.max_impact # NaN
    /\ (/\ out.kind = "error"
        /\ out.op = "estimate"
        /\ estlog[1].n_cascades < 1)
          => out.value \in ValueErrors
    /\ (est.pc = "loop" /\ est.n_cascades < 1) => est.cascade_sizes = <<>>

\* C14 witness: the estimation of a node of the chain over 0 cascades has
\* raised.
C14_Witness ==
    /\ G = Chain3
    /\ out.kind = "error"
    /\ out.op = "estimate"
    /\ estlog[1].node_id = "A"
    /\ estlog[1].n_cascades = 0
    /\ out.value = ZeroSizeArray

\* C15 as stated: simulate_cascade called with a nan multiplier raises instead
\* of running the cascade: it returns no count for one.
C15_NaNRejected ==
    SimulateValue(out) => out.stress_multiplier # NaN

\* the estimations of the operation that ended in an exception
Failed == {i \in DOMAIN estlog : "raised" \in DOMAIN estlog[i]}

\* C16: an exception raised in an estimation reaches the caller of
\* compute_fragility_all, convergence_test or compute_node_fragility as it
\* was raised: the operation ends at once with that error as its outcome, the
\* records computed before are not returned and no estimation follows; and a
\* list that is returned holds nothing but the records of estimations that
\* returned, one for each estimation run.
C16_FailurePolicy ==
    /\ \A i \in Failed :
          /\ i = Len(estlog)
          /\ top = "idle"
          /\ out.kind = "error"
          /\ out.value = estlog[i].raised
          /\ batch = Off /\ conv = Off /\ est = Off /\ sim = Off
    /\ (out.kind = "error" /\ out.op \in {"estimate", "all"})
          => Failed = {Len(estlog)}
    /\ (out.kind = "value" /\ out.op \in {"all", "conv"})
          => /\ Failed = {}
             /\ Len(out.value) = Len(estlog)
             /\ \A i \in DOMAIN estlog : estlog[i].done
    /\ (out.kind = "value" /\ out.op = "all")
          => \A i \in DOMAIN estlog : out.value[i] = estlog[i].res

\* C16 witness: the batch over the three-node graph has ended with the error
\* the estimation of its first node raised.
C16_Witness ==
    /\ G = Mixed
    /\ out.kind = "error"
    /\ out.op = "all"
    /\ Failed = {1}
    /\ estlog[1].node_id = "D"

\* C17 as stated: on a graph without nodes compute_node_fragility, called
\* with n_cascades >= 1, does not fail, it returns a record with
\* normalized_fragility 0.
C17_EmptyGraphZero ==
    (/\ NumberOfNodes(G) = 0
     /\ out.kind # "none"
     /\ out.op = "estimate"
     /\ estlog[1].n_cascades >= 1)
        => /\ out.kind = "value"
           /\ out.value.normalized_fragility = 0

\* C17 amended: on a graph without nodes the divisor of the normalization is
\* 1 and no division error is raised, but no estimation returns a record:
\* every node is absent, so the estimation raises the node-not-found error
\* when n_cascades >= 1 and numpy's ValueError when n_cascades < 1; the batch
\* returns the empty list.
C17_EmptyGraphFails ==
    NumberOfNodes(G) = 0
        => /\ Returned = {}
           /\ est.pc \in {"loop", "call"}
                 => est.total_nodes = 0 /\ Divisor(est.total_nodes) = 1
           /\ (out.kind # "none" /\ out.op = "estimate")
                 => /\ out.kind = "error"
                    /\ out.value = IF estlog[1].n_cascades >= 1 THEN NodeNotFound
                                   ELSE IF estlog[1].n_cascades = 0
                                   THEN ZeroSizeArray
                                   ELSE NegativeDimensions
           /\ (out.kind # "none" /\ out.op = "all")
                 => out.kind = "value" /\ out.value = <<>>

\* C17 witness: an estimation over two cascades on the graph without nodes
\* has raised the node-not-found error.
C17_Witness ==
    /\ G = Empty
    /\ out.kind = "error"
    /\ out.op = "estimate"
    /\ estlog[1].n_cascades = 2
    /\ out.value = NodeNotFound

\* d < min(w * m, 1.0), in sixteenths, of a draw d, a weight w and a
\* multiplier m that is a number
BelowClamped(d, w, m) == d < (IF w * m >= ProbOne THEN ProbOne ELSE w * m)

\* one round of the for loop of simulate_cascade for the successor v of u
EdgeStep(u, v) ==
    /\ sim.pc = "for"
    /\ sim' # sim
    /\ u = sim.u
    /\ v = Head(sim.todo)

\* C18: when u has been dequeued, the round of the loop for a successor v that
\* has not failed takes exactly one draw d, and v is added to the failed set
\* and to the end of the queue if and only if d < min(weight(u,v) *
\* multiplier, 1.0), nothing else being added; the clamp is that of the edge:
\* an edge with weight * multiplier >= 1 always propagates when it is
\* evaluated; a multiplier <= 0 propagates along no edge, and the count
\* returned is then 1.
C18_PropagationRule ==
    /\ [][\A u \in Range(G.nodes) : \A v \in Range(G.nodes) :
            (EdgeStep(u, v) /\ v \notin sim.failed /\ sim.stress_multiplier # NaN)
                => LET w == IF <<u, v>> \in DOMAIN G.weight
                            THEN G.weight[<<u, v>>] ELSE DefaultWeight
                       m == sim.stress_multiplier
                       d == stream[(rng % StreamLen) + 1]
                   IN  /\ rng' = rng + 1
                       /\ v \in sim'.failed <=> BelowClamped(d, w, m)
                       /\ sim'.failed \subseteq sim.failed \cup {v}
                       /\ sim.failed \subseteq sim'.failed
                       /\ sim'.queue = IF v \in sim'.failed
                                       THEN Append(sim.queue, v) ELSE sim.queue
                       /\ w * m >= ProbOne => v \in sim'.failed
                       /\ m <= 0 => v \notin sim'.failed]_vars
    /\ []((/\ SimulateValue(out)
           /\ out.stress_multiplier # NaN
           /\ out.stress_multiplier <= 0)
              => (out.value = 1 /\ out.level1 = {out.seed_node}))

\* C18 witness: under multiplier 1.5 and two draws of 0.9375 the seed A of the
\* four-node graph has not failed B along the edge of weight 0.5 and has
\* failed C along the edge of weight 1.0.
C18_Witness ==
    /\ G = Diamond
    /\ sim # Off
    /\ sim.seed_node = "A"
    /\ sim.stress_multiplier = 6
    /\ sim.u = "A"
    /\ sim.todo = <<>>
    /\ stream[1] = 15
    /\ stream[2] = 15
    /\ sim.failed = {"A", "C"}
    /\ rng = 2

\* no element occurs twice in the sequence s
NoRepeat(s) == \A i \in DOMAIN s : \A j \in DOMAIN s : s[i] = s[j] => i = j

\* the edges of the graph
Edges == {<<u, v>> \in Range(G.nodes) \X Range(G.nodes) : v \in Range(G.succ[u])}

\* C19: in one run of simulate_cascade every node is put into the queue at
\* most once and taken from it at most once, a draw is taken at most once for
\* every edge, and none for a successor that has already failed (the target
\* of a self-loop included), so that the run takes at most |E| draws.
C19_AtMostOnce ==
    /\ [](sim # Off
            => /\ NoRepeat(sim.enqueued)
               /\ NoRepeat(sim.dequeued)
               /\ NoRepeat(sim.evaluated)
               /\ Range(sim.evaluated) \subseteq Edges
               /\ Len(sim.evaluated) = rng - sim.start
               /\ rng - sim.start <= Cardinality(Edges))
    /\ [](SimulateValue(out) => out.end - out.start <= Cardinality(Edges))
    /\ [][\A u \in Range(G.nodes) : \A v \in Range(G.nodes) :
            EdgeStep(u, v)
                => /\ v \in sim.failed => rng' = rng
                   /\ rng' # rng
                         => /\ v \notin sim.failed
                            /\ <<u, v>> \notin Range(sim.evaluated)]_vars

\* C19 witness: a cascade from D of the four-node graph has come round the
\* cycle D -> B -> D and found D failed, with one draw taken.
C19_Witness ==
    /\ G = Diamond
    /\ sim # Off
    /\ sim.seed_node = "D"
    /\ sim.dequeued = <<"D", "B">>
    /\ sim.todo = <<>>
    /\ sim.evaluated = <<<<"D", "B">>>>

\* the step in which simulate_cascade returns
SimReturns == sim # Off /\ sim' = Off /\ out'.kind # "error"

\* C20: on every graph, with cycles and self-loops or without, and for every
\* multiplier and stream of draws, a run of simulate_cascade that has begun
\* ends; it takes no more than |V| nodes from the queue, and it returns, when
\* the queue is empty, the size of the failed set.
C20_Terminates ==
    /\ [](sim # Off => sim.dequeues <= NumberOfNodes(G))
    /\ [][SimReturns
            => /\ sim.queue = <<>>
               /\ sim.pc = "while"
               /\ top = "simulate" => out'.value = Cardinality(sim.failed)
               /\ top # "simulate"
                     => est'.cascade_sizes =
                           Append(est.cascade_sizes,
                                  IF Cardinality(sim.failed) >= 1
                                  THEN Cardinality(sim.failed) - 1 ELSE 0)]_vars
    /\ (sim # Off) ~> (sim = Off)

\* C20 witness: a cascade from B of the three-node graph, whose nodes A and B
\* lie on a cycle and B on a self-loop, has returned with both failed.
C20_Witness ==
    /\ G = Mixed
    /\ SimulateValue(out)
    /\ out.seed_node = "B"
    /\ out.value = 2
    /\ out.end - out.start = 1

\* the cascades of one estimation, the k-th starting at starts[k] and the
\* generator being at marks[k + 1] when it has returned (marks[1]: where the
\* generator was seeded), take their draws one after the other from one
\* stream
Continuous(starts, marks) ==
    /\ marks[1] = 0
    /\ \A k \in DOMAIN starts :
          /\ starts[k] = marks[k]
          /\ (k + 1) \in DOMAIN marks => starts[k] <= marks[k + 1]
          /\ \A l \in DOMAIN starts :
                (k < l /\ (k + 1) \in DOMAIN marks) => marks[k + 1] <= starts[l]

\* C21: the cascades of one compute_node_fragility call draw from one
\* stream: the generator is seeded once, before the first cascade, every
\* later cascade starts where the one before it stopped, no place of the
\* stream is drawn by two cascades, and between two cascades the generator
\* stays where it is.
C21_ContinuousStream ==
    /\ \A i \in Returned :
          /\ Len(estlog[i].starts) = estlog[i].n_cascades
          /\ Len(estlog[i].marks) = estlog[i].n_cascades + 1
          /\ Continuous(estlog[i].starts, estlog[i].marks)
    /\ est.pc \in {"loop", "call"}
          => /\ Continuous(est.starts, est.marks)
             /\ est.pc = "loop"
                   => /\ rng = est.marks[Len(est.marks)]
                      /\ Len(est.starts) + 1 = Len(est.marks)
             /\ est.pc = "call"
                   => /\ sim.start = est.marks[Len(est.marks)]
                      /\ Len(est.starts) = Len(est.marks)
                      /\ rng >= sim.start

\* C21 witness: an estimation over two cascades has returned, and both of
\* its cascades took draws.
C21_Witness ==
    \E i \in Returned :
        /\ estlog[i].n_cascades = 2
        /\ 0 < estlog[i].marks[2]
        /\ estlog[i].marks[2] < estlog[i].marks[3]

\* C22: every compute_node_fragility call has a generator of its own, seeded
\* at the same place whatever estimations ran before it in the operation, so
\* that the record of a node does not depend on them: the record
\* compute_fragility_all has returned for a node v, at whatever place of the
\* node order, is the record a compute_node_fragility call for v alone then
\* returns for the same stress level and n_cascades.
C22_Independent ==
    /\ \A i \in Returned : estlog[i].marks[1] = estlog[1].marks[1]
    /\ (/\ out.kind = "value"
        /\ out.op = "estimate"
        /\ prev.kind = "value"
        /\ prev.op = "all")
          => /\ \E i \in DOMAIN prev.value :
                   prev.value[i].node_id = out.value.node_id
             /\ \A i \in DOMAIN prev.value :
                   prev.value[i].node_id = out.value.node_id
                      => prev.value[i] = out.value

\* C22 witness: after the batch over the chain, in which the cascades of A
\* failed other nodes, B has been estimated alone over two cascades that did
\* not end alike.
C22_Witness ==
    /\ G = Chain3
    /\ out.kind = "value"
    /\ out.op = "estimate"
    /\ prev.kind = "value"
    /\ prev.op = "all"
    /\ prev.n_cascades = 2
    /\ prev.value[1].raw_fragility > 0
    /\ out.value.node_id = "B"
    /\ out.value.std > 0

\* C23: at every point of a run of simulate_cascade the failed set holds the
\* seed and nothing but nodes that can be reached from it along directed
\* edges; every failed node but the seed was added when a draw was taken for
\* an edge into it from a node that had failed and been taken from the queue
\* before; and every node in the queue has failed.
C23_FailedReachable ==
    sim # Off
        => /\ sim.seed_node \in sim.failed
           /\ sim.failed \subseteq ReachFrom({sim.seed_node})
           /\ Range(sim.queue) \subseteq sim.failed
           /\ \A v \in sim.failed \ {sim.seed_node} :
                 \E k \in DOMAIN sim.evaluated :
                     /\ sim.evaluated[k][2] = v
                     /\ sim.evaluated[k][1] \in sim.failed
                     /\ sim.evaluated[k][1] \in Range(sim.dequeued)
                     /\ v \in Range(G.succ[sim.evaluated[k][1]])

\* C23 witness: a cascade from C of the four-node graph has failed D and B,
\* and A, which no edge leads to, has not failed.
C23_Witness ==
    /\ G = Diamond
    /\ sim # Off
    /\ sim.seed_node = "C"
    /\ sim.failed = {"C", "D", "B"}
    /\ sim.queue = <<>>

====
